---- MODULE Spec2Model ----
(***************************************************************************)
(* Render-farm coordinator: the job queue manager (Store + ready cache),   *)
(* the submit path of the operator UI, and the frame batcher.              *)
(*                                                                         *)
(* The Store is the SQLite file: the jobs table is a function from job id  *)
(* to row, the sub_jobs table is the sequence of its rows in rowid order   *)
(* (the order the dispatch query falls back to among equal sort keys).     *)
(* The ready cache is the OrderedDict job_cache: a sequence of entries in  *)
(* dictionary order.                                                       *)
(***************************************************************************)
EXTENDS Integers, Sequences, FiniteSets, TLC

\* ---------------------------------------------------------------- bounds
\* Jobs submitted in one behaviour, batches of one job, rows of sub_jobs.
MaxJobs == 2
MaxBatches == 2
MaxRows == 3
\* get_next_job calls counted in one run of calls.
MaxCalls == 4
\* Frame-range strings: terms per string, largest frame number, batch sizes.
MaxTerms == 2
MaxFrame == 5
MaxBatchSize == 3
\* Ages of timestamps are counted up to MaxAge seconds; MaxAge stands for
\* "MaxAge or more". Jobs submitted in a behaviour of the farm.
MaxAge == 90
FarmJobs == 1
\* Requests the HTTP server answers in a behaviour.
MaxRequests == 4
\* Render threads started, and main-loop iterations per worker, in a behaviour.
MaxThreads == 3
MaxPolls == 2
\* The size the ready cache is given in SpecCache (self.cache_max_size), and
\* the get_next_job calls of one behaviour there.
CacheCap == 2
MaxPulls == 6
\* Batches of one job and rows of sub_jobs in SpecCache.
CacheBatches == 3
CacheRows == 5

\* ------------------------------------------------------ program constants
cache_max_size == 1000
FetchLimit == 5
CacheUpTo == 10
\* worker_node.py "heartbeat_interval"; the windows of job_queue_manager.py.
heartbeat_interval == 10
db_write_interval == 30
db_online_window == 30
cache_online_window == 60
stale_threshold == 300
\* worker_node.py load_config defaults.
timeout_per_frame == 1800
retry_attempts == 3

NULL == "NULL"
\* A sub-job id is <<job id, batch number>> ("<jobId>_batch_NNN"); NoSub is None.
NoSub == <<0, 0>>
AllSubIds == (1..MaxJobs) \X (1..MaxBatches)

VARIABLES
    jobs,        \* Store: jobs table, job id -> row
    sub_jobs,    \* Store: sub_jobs table, rows in rowid order
    job_cache,   \* JobQueueManager.job_cache, entries in OrderedDict order
    issued,      \* number of job ids issued so far (uuid4 never repeats)
    ui_job,      \* job the UI submit handler has inserted and not yet batched; 0 if none
    \* a run of get_next_job calls (SpecDispatch)
    calls,       \* N: calls made in the run
    avail,       \* M: sub-jobs pending in the Store when the run began
    handed,      \* sub-job id -> how many calls of the run returned it
    \* what has happened to each sub-job (SpecCore)
    trail,
    \* the same calls made on a manager with cache_enabled = False (SpecAdvisory)
    ref_jobs, ref_sub_jobs, ret, ref_ret,
    \* the batcher (SpecBatch)
    frame_range_str, batch_size, frames, batches, batch_step,
    \* the worker registry; times are kept as ages in seconds (SpecFarm)
    workers,            \* Store: workers table, worker id -> row
    worker_cache,       \* JobQueueManager.worker_cache, worker id -> entry
    last_db_heartbeat,  \* JobQueueManager._last_db_heartbeat
    late,               \* workers that let more than a heartbeat interval pass
    \* the worker node (SpecRender, SpecNode)
    render,             \* one call of execute_render_job, step by step
    threads,            \* the render threads the main loops have started
    current_jobs,       \* ProductionRenderWorker.current_jobs, worker id -> sub-job ids
    polled,             \* the last iteration of a main loop
    response,           \* the last answer of the HTTP server (SpecApi)
    cache_log,          \* history: the ready cache's keys by insertion (SpecCache)
    pool                \* each worker's RenderBufferPool (SpecNode)

queueVars == <<jobs, sub_jobs, job_cache, issued, ui_job>>
runVars == <<calls, avail, handed>>
refVars == <<ref_jobs, ref_sub_jobs, ret, ref_ret>>
batchVars == <<frame_range_str, batch_size, frames, batches, batch_step>>
farmVars == <<workers, worker_cache, last_db_heartbeat, late>>
nodeVars == <<render, threads, current_jobs, polled, response, cache_log, pool>>
vars == <<queueVars, runVars, trail, refVars, batchVars, farmVars, nodeVars>>

\* ---------------------------------------------------------------- helpers
Min(S) == CHOOSE x \in S : \A y \in S : x <= y

RECURSIVE GCD(_, _)
GCD(a, b) == IF b = 0 THEN a ELSE GCD(b, a % b)

\* A rational n/d in lowest terms, as <<n, d>>.
Ratio(n, d) == LET g == GCD(n, d) IN IF g = 0 THEN <<0, 1>> ELSE <<n \div g, d \div g>>

RemoveAt(s, i) == SubSeq(s, 1, i - 1) \o SubSeq(s, i + 1, Len(s))

\* The manager's state as one value, so that an operation is a function of it.
Mgr(j, s, c) == [jobs |-> j, sub_jobs |-> s, job_cache |-> c]
Cur == Mgr(jobs, sub_jobs, job_cache)

SubsOf(m, job_id) == {i \in 1..Len(m.sub_jobs) : m.sub_jobs[i].parent_job_id = job_id}
RowOf(m, id) == {i \in 1..Len(m.sub_jobs) : m.sub_jobs[i].id = id}

\* ------------------------------------------------------------ submit path
\* submit_job: INSERT INTO jobs; status, progress and created_at take the
\* column defaults ('pending', 0.0, CURRENT_TIMESTAMP).
submit_job(m, job_id, priority, now) ==
    [m EXCEPT !.jobs = [k \in DOMAIN m.jobs \cup {job_id} |->
        IF k = job_id
        THEN [status |-> "pending", progress |-> Ratio(0, 1),
              priority |-> priority, created_at |-> now]
        ELSE m.jobs[k]]]

\* create_sub_jobs: one row per batch, batch_number i+1, status and worker_id
\* by column default ('pending', NULL), committed together.
\* The mutant: enumerate's index taken as the batch number.
create_sub_jobs_from_zero(m, job_id, nbatches) ==
    [m EXCEPT !.sub_jobs = m.sub_jobs \o
        [i \in 1..nbatches |->
            [id |-> <<job_id, i>>, parent_job_id |-> job_id, batch_number |-> i - 1,
             status |-> "pending", worker_id |-> NULL, started_at |-> NULL]]]

create_sub_jobs(m, job_id, nbatches) ==
    [m EXCEPT !.sub_jobs = m.sub_jobs \o
        [i \in 1..nbatches |->
            [id |-> <<job_id, i>>, parent_job_id |-> job_id, batch_number |-> i,
             status |-> "pending", worker_id |-> NULL, started_at |-> NULL]]]

\* ---------------------------------------------------------------- dispatch
PriorityRank(p) ==
    CASE p = "critical" -> 1
      [] p = "high" -> 2
      [] p = "normal" -> 3
      [] p = "low" -> 4
      [] OTHER -> 5

\* ORDER BY CASE j.priority ..., j.created_at ASC; rows with equal keys come
\* out in the order the scan of sub_jobs meets them, which is rowid order.
RowBefore(m, a, b) ==
    LET ja == m.jobs[m.sub_jobs[a].parent_job_id]
        jb == m.jobs[m.sub_jobs[b].parent_job_id]
    IN  \/ PriorityRank(ja.priority) < PriorityRank(jb.priority)
        \/ /\ PriorityRank(ja.priority) = PriorityRank(jb.priority)
           /\ \/ ja.created_at < jb.created_at
              \/ ja.created_at = jb.created_at /\ a < b

RECURSIVE SortRows(_, _)
SortRows(m, S) ==
    IF S = {} THEN <<>>
    ELSE LET i == CHOOSE x \in S : \A y \in S \ {x} : RowBefore(m, x, y)
         IN  <<m.sub_jobs[i].id>> \o SortRows(m, S \ {i})

\* The SELECT ... WHERE sj.status = 'pending' ORDER BY ... LIMIT 5 of get_next_job.
select_pending(m) ==
    LET rows == {i \in 1..Len(m.sub_jobs) :
                    /\ m.sub_jobs[i].status = "pending"
                    /\ m.sub_jobs[i].parent_job_id \in DOMAIN m.jobs}
        all == SortRows(m, rows)
    IN  SubSeq(all, 1, IF Len(all) < FetchLimit THEN Len(all) ELSE FetchLimit)

\* _get_job_from_cache: the first entry in dictionary order whose status is
\* pending is moved to the end, marked running and returned. Only the cache
\* entry is written. (The entry also takes the caller's worker_id and a
\* started_at; nothing reads them again, and the entries here carry the id
\* and the status.)
get_job_from_cache(cache, worker_id) ==
    LET P == {i \in 1..Len(cache) : cache[i].status = "pending"} IN
    IF P = {} THEN [found |-> FALSE, cache |-> cache, sub_job_id |-> NoSub]
    ELSE LET i == Min(P)
             e == [cache[i] EXCEPT !.status = "running"]
         IN  [found |-> TRUE, cache |-> Append(RemoveAt(cache, i), e),
              sub_job_id |-> e.sub_job_id]

\* One iteration of _cache_pending_jobs: evict the oldest entry when the cache
\* is full, then job_cache[sub_job_id] = a fresh pending entry (an existing key
\* keeps its position).
cache_one(cache, id) ==
    LET c == IF Len(cache) >= cache_max_size THEN Tail(cache) ELSE cache
        e == [sub_job_id |-> id, status |-> "pending"]
    IN  IF \E i \in 1..Len(c) : c[i].sub_job_id = id
        THEN [i \in 1..Len(c) |-> IF c[i].sub_job_id = id THEN e ELSE c[i]]
        ELSE Append(c, e)

RECURSIVE cache_each(_, _)
cache_each(cache, ids) ==
    IF ids = <<>> THEN cache ELSE cache_each(cache_one(cache, Head(ids)), Tail(ids))

\* _cache_pending_jobs(job_results): job_results[:10] are cached.
cache_pending_jobs(cache, ids) ==
    cache_each(cache, SubSeq(ids, 1, IF Len(ids) < CacheUpTo THEN Len(ids) ELSE CacheUpTo))

\* The two UPDATEs of the Store path of get_next_job: the sub-job row becomes
\* running for the caller, a pending parent becomes running.
claim_in_store(m, id, worker_id) ==
    [m EXCEPT
        !.sub_jobs = [i \in 1..Len(m.sub_jobs) |->
            IF m.sub_jobs[i].id = id
            THEN [m.sub_jobs[i] EXCEPT !.status = "running", !.worker_id = worker_id,
                                       !.started_at = "set"]
            ELSE m.sub_jobs[i]],
        !.jobs = [k \in DOMAIN m.jobs |->
            IF k = id[1] /\ m.jobs[k].status = "pending"
            THEN [m.jobs[k] EXCEPT !.status = "running"]
            ELSE m.jobs[k]]]

\* get_next_job(worker_id): [m |-> the manager afterwards, ret |-> the sub-job
\* returned, NoSub for None].
get_next_job(m, worker_id, cache_enabled) ==
    LET hit == get_job_from_cache(m.job_cache, worker_id) IN
    IF cache_enabled /\ hit.found
    THEN [m |-> [m EXCEPT !.job_cache = hit.cache], ret |-> hit.sub_job_id]
    ELSE LET results == select_pending(m) IN
         IF results = <<>> THEN [m |-> m, ret |-> NoSub]
         ELSE LET cached == IF cache_enabled /\ Len(results) > 1
                            THEN cache_pending_jobs(m.job_cache, Tail(results))
                            ELSE m.job_cache
              IN  [m |-> claim_in_store([m EXCEPT !.job_cache = cached],
                                        results[1], worker_id),
                   ret |-> results[1]]

\* -------------------------------------------------------------- completion
\* The percentage with an integer division: (completed // total) * 100.
PercentFloored(completed, total) ==
    IF total > 0 THEN Ratio((completed \div total) * 100, 1) ELSE Ratio(0, 1)

\* progress = (completed / total) * 100
Percent(completed, total) == IF total > 0 THEN Ratio(completed * 100, total) ELSE Ratio(0, 1)

\* optimize_cache on the ready cache: the entries cached more than 300 s ago
\* are deleted. `stale` is the set of their positions.
optimize_cache(cache, stale) ==
    LET keep == {i \in 1..Len(cache) : i \notin stale}
        F[i \in 0..Len(cache)] ==
            IF i = 0 THEN <<>>
            ELSE IF i \in keep THEN Append(F[i - 1], cache[i]) ELSE F[i - 1]
    IN  F[Len(cache)]

\* The UPDATE with a guard on the row's status: only a running row is marked.
mark_sub_job_if_running(subs, id, status) ==
    [i \in 1..Len(subs) |->
        IF subs[i].id = id /\ subs[i].status = "running"
        THEN [subs[i] EXCEPT !.status = status] ELSE subs[i]]

\* UPDATE sub_jobs SET status = ?, completed_at = ... WHERE id = ?
mark_sub_job(subs, id, status) ==
    [i \in 1..Len(subs) |->
        IF subs[i].id = id THEN [subs[i] EXCEPT !.status = status] ELSE subs[i]]

\* complete_sub_job(sub_job_id, success), up to the commit.
complete_sub_job(m, id, success, cache_enabled) ==
    LET status == IF success THEN "completed" ELSE "failed"
        cache1 == IF cache_enabled
                  THEN [i \in 1..Len(m.job_cache) |->
                           IF m.job_cache[i].sub_job_id = id
                           THEN [m.job_cache[i] EXCEPT !.status = status]
                           ELSE m.job_cache[i]]
                  ELSE m.job_cache
        subs1 == mark_sub_job(m.sub_jobs, id, status)
        parent == id[1]
        mine == {i \in 1..Len(subs1) : subs1[i].parent_job_id = parent}
        total == Cardinality(mine)
        completed == Cardinality({i \in mine : subs1[i].status = "completed"})
        jobs1 == [k \in DOMAIN m.jobs |->
                     IF k = parent
                     THEN [m.jobs[k] EXCEPT
                              !.progress = Percent(completed, total),
                              !.status = IF completed = total THEN "completed" ELSE @]
                     ELSE m.jobs[k]]
    IN  IF RowOf(m, id) = {}
        THEN [m EXCEPT !.job_cache = cache1]
        ELSE Mgr(jobs1, subs1, cache1)

\* ------------------------------------------------------ operator controls
\* UPDATE jobs SET status = ? WHERE <the job is in which>
SetJobStatus(m, which, status) ==
    [k \in DOMAIN m.jobs |->
        IF k \in which THEN [m.jobs[k] EXCEPT !.status = status] ELSE m.jobs[k]]

\* UPDATE sub_jobs SET status = ? WHERE <the row is in which>
SetSubStatus(m, which, status) ==
    [i \in 1..Len(m.sub_jobs) |->
        IF i \in which THEN [m.sub_jobs[i] EXCEPT !.status = status]
        ELSE m.sub_jobs[i]]

\* The rows WHERE status = ? / the jobs WHERE status = ?
SubsWith(m, status) == {i \in 1..Len(m.sub_jobs) : m.sub_jobs[i].status = status}
JobsWith(m, status) == {k \in DOMAIN m.jobs : m.jobs[k].status = status}

\* pause_job without the status filter: every sub-job of the job is paused.
pause_job_every_row(m, job_id) ==
    [m EXCEPT
        !.jobs = SetJobStatus(m, {job_id}, "paused"),
        !.sub_jobs = SetSubStatus(m, SubsOf(m, job_id), "paused")]

pause_job(m, job_id) ==
    [m EXCEPT
        !.jobs = SetJobStatus(m, {job_id}, "paused"),
        !.sub_jobs = SetSubStatus(m, SubsOf(m, job_id) \cap SubsWith(m, "running"), "paused")]

resume_job(m, job_id) ==
    [m EXCEPT
        !.jobs = SetJobStatus(m, {job_id}, "running"),
        !.sub_jobs = SetSubStatus(m, SubsOf(m, job_id) \cap SubsWith(m, "paused"), "pending")]

cancel_job(m, job_id) ==
    [m EXCEPT
        !.jobs = SetJobStatus(m, {job_id}, "cancelled"),
        !.sub_jobs = SetSubStatus(m, SubsOf(m, job_id), "cancelled")]

pause_all_jobs(m) ==
    [m EXCEPT
        !.jobs = SetJobStatus(m, JobsWith(m, "running"), "paused"),
        !.sub_jobs = SetSubStatus(m, SubsWith(m, "running"), "paused")]

resume_all_jobs(m) ==
    [m EXCEPT
        !.jobs = SetJobStatus(m, JobsWith(m, "paused"), "running"),
        !.sub_jobs = SetSubStatus(m, SubsWith(m, "paused"), "pending")]

clear_completed_jobs_only(m, cache_enabled) ==
    LET done == {k \in DOMAIN m.jobs : m.jobs[k].status = "completed"} IN
    [m EXCEPT !.jobs = [k \in DOMAIN m.jobs \ done |-> m.jobs[k]]]

\* clear_completed_jobs: completed cache entries are dropped, then the
\* sub-jobs of completed jobs and the completed jobs are deleted.
clear_completed_jobs(m, cache_enabled) ==
    LET done == {k \in DOMAIN m.jobs : m.jobs[k].status = "completed"} IN
    Mgr([k \in DOMAIN m.jobs \ done |-> m.jobs[k]],
        SelectSeq(m.sub_jobs, LAMBDA r : r.parent_job_id \notin done),
        IF cache_enabled
        THEN SelectSeq(m.job_cache, LAMBDA e : e.status # "completed")
        ELSE m.job_cache)


\* ------------------------------------------------------------ the batcher
\* A frame-range string is the sequence of its comma-separated terms, a term
\* <<a>> for "a" and <<a, b>> for "a-b". A batch string is <<s>> for "s" and
\* <<s, e>> for "s-e".
Terms == {<<a>> : a \in 1..MaxFrame} \cup
         {<<a, b>> : a \in 1..MaxFrame, b \in 1..MaxFrame}
LegalTerms == {t \in Terms : Len(t) = 2 => t[1] <= t[2]}

RECURSIVE SeqsUpTo(_, _)
SeqsUpTo(S, n) ==
    IF n = 0 THEN {<<>>}
    ELSE LET shorter == SeqsUpTo(S, n - 1)
         IN  shorter \cup {Append(q, x) : q \in {r \in shorter : Len(r) = n - 1}, x \in S}

\* range(start, end + 1) for "start-end", the one frame otherwise.
TermFrames(t) == IF Len(t) = 2 THEN t[1]..t[2] ELSE {t[1]}

RECURSIVE SortedSeq(_)
SortedSeq(S) == IF S = {} THEN <<>> ELSE LET x == Min(S) IN <<x>> \o SortedSeq(S \ {x})

\* The frames list before set() and sorted(): the terms' frames in the order
\* of the string.
RECURSIVE Listed(_)
Listed(str) ==
    IF str = <<>> THEN <<>> ELSE SortedSeq(TermFrames(Head(str))) \o Listed(Tail(str))

\* The mutant: the list as it was collected.
parse_frame_range_unsorted(str) == Listed(str)

\* parse_frame_range: sorted(list(set(frames)))
parse_frame_range(str) == SortedSeq(UNION {TermFrames(str[i]) : i \in 1..Len(str)})

\* The mutant: a range that ends one frame late.
batch_string_wide(batch_frames) ==
    <<batch_frames[1], batch_frames[Len(batch_frames)] + 1>>

\* The batch string of frames[i : i + batch_size]: "first-last", or the frame
\* alone when the slice holds one frame.
batch_string(batch_frames) ==
    IF Len(batch_frames) = 1 THEN <<batch_frames[1]>>
    ELSE <<batch_frames[1], batch_frames[Len(batch_frames)]>>

\* create_batches: for i in range(0, len(frames), batch_size)
RECURSIVE create_batches(_, _)
create_batches(fs, size) ==
    IF fs = <<>> THEN <<>>
    ELSE LET n == IF Len(fs) < size THEN Len(fs) ELSE size
         IN  <<batch_string(SubSeq(fs, 1, n))>> \o create_batches(SubSeq(fs, n + 1, Len(fs)), size)

\* The frames a worker renders for a batch string: start..end of "start-end"
\* (-F start-end), the frame itself otherwise.
rendered_frames(batch) == IF Len(batch) = 2 THEN batch[1]..batch[2] ELSE {batch[1]}

\* ----------------------------------------------------------------- actions
Install(m) ==
    /\ jobs' = m.jobs
    /\ sub_jobs' = m.sub_jobs
    /\ job_cache' = m.job_cache

InitQueue ==
    /\ jobs = <<>>
    /\ sub_jobs = <<>>
    /\ job_cache = <<>>
    /\ issued = 0
    /\ ui_job = 0

InitRun ==
    /\ calls = 0
    /\ avail = 0
    /\ handed = [id \in AllSubIds |-> 0]

InitTrail == trail = [id \in AllSubIds |-> [st |-> "none", cached |-> FALSE]]

InitRef ==
    /\ ref_jobs = <<>>
    /\ ref_sub_jobs = <<>>
    /\ ret = NoSub
    /\ ref_ret = NoSub

IdleBatcher ==
    /\ frame_range_str = <<>>
    /\ batch_size = 1
    /\ frames = <<>>
    /\ batches = <<>>
    /\ batch_step = "idle"

\* No render is under way, no thread was started and no loop has run.
IdleRender == [pc |-> "idle"]
InitNode ==
    /\ render = IdleRender
    /\ threads = <<>>
    /\ current_jobs = <<>>
    /\ polled = NULL
    /\ response = [n |-> 0, path |-> "none", key |-> NULL, status |-> 0]
    /\ cache_log = [order |-> <<>>, evicted |-> <<>>, handed |-> {}]
    /\ pool = <<>>

\* No worker is registered and no heartbeat was received.
InitWorkers ==
    /\ workers = <<>>
    /\ worker_cache = <<>>
    /\ last_db_heartbeat = <<>>
    /\ late = {}

Init == InitQueue /\ InitRun /\ InitTrail /\ InitRef /\ IdleBatcher /\ InitWorkers /\ InitNode

\* RenderLauncherApp.submit_job, first half: queue_manager.submit_job commits
\* the job row. Submissions are told apart by their second of arrival: two in
\* one second dispatch in rowid order, which is the order of arrival too.
QSubmitJob(priority) ==
    /\ ui_job = 0
    /\ issued < MaxJobs
    /\ Len(sub_jobs) < MaxRows
    /\ Install(submit_job(Cur, issued + 1, priority, issued + 1))
    /\ issued' = issued + 1
    /\ ui_job' = issued + 1

\* Second half: process_render_job batches the frames and create_sub_jobs
\* commits the rows. `nbatches` is len(create_batches(...)).
QProcessJob(nbatches) ==
    /\ ui_job # 0
    /\ Len(sub_jobs) + nbatches <= MaxRows
    /\ Install(create_sub_jobs(Cur, ui_job, nbatches))
    /\ ui_job' = 0
    /\ UNCHANGED issued

\* Second half when process_job raises (a frame range int() rejects): the
\* handler shows the error; the job row stays, without sub-jobs.
QProcessJobFails ==
    /\ ui_job # 0
    /\ ui_job' = 0
    /\ UNCHANGED <<jobs, sub_jobs, job_cache, issued>>

\* GET /api/jobs/next?worker_id=w
QGetNextJob(w) ==
    /\ Install(get_next_job(Cur, w, TRUE).m)
    /\ UNCHANGED <<issued, ui_job>>

\* POST /api/jobs/complete. After the commit every 50th call runs
\* optimize_cache; the call counter and the ages of the entries are not
\* tracked, so any set of entries may be found stale (none when not due).
QCompleteSubJob(id, success) ==
    LET m == complete_sub_job(Cur, id, success, TRUE) IN
    /\ \E stale \in SUBSET (1..Len(m.job_cache)) :
          /\ RowOf(Cur, id) = {} => stale = {}
          /\ Install([m EXCEPT !.job_cache = optimize_cache(m.job_cache, stale)])
    /\ UNCHANGED <<issued, ui_job>>

\* POST /api/jobs/complete from worker w: worker_id is read from the body and
\* printed; the manager is called with the sub-job id and success alone.
PostComplete(id, w, ok) == QCompleteSubJob(id, ok)

\* The operator's buttons run on the UI thread, so not inside a submission.
QOperator(m) ==
    /\ ui_job = 0
    /\ Install(m)
    /\ UNCHANGED <<issued, ui_job>>

QPauseJob(j) == j \in DOMAIN jobs /\ QOperator(pause_job(Cur, j))
QResumeJob(j) == j \in DOMAIN jobs /\ QOperator(resume_job(Cur, j))
QCancelJob(j) == j \in DOMAIN jobs /\ QOperator(cancel_job(Cur, j))
QPauseAllJobs == QOperator(pause_all_jobs(Cur))
QResumeAllJobs == QOperator(resume_all_jobs(Cur))
QClearCompletedJobs == QOperator(clear_completed_jobs(Cur, TRUE))

\* ------------------------------------------- Spec: the whole queue manager
\* One worker and one priority: the operations on jobs do not read either.
Rest == UNCHANGED <<runVars, trail, refVars, farmVars, nodeVars, batchVars>>

SubmitJob(p) == QSubmitJob(p) /\ Rest
ProcessJob(n) == QProcessJob(n) /\ Rest
ProcessJobFails == QProcessJobFails /\ Rest
GetNextJob(w) == QGetNextJob(w) /\ Rest
CompleteSubJob(id, ok) == QCompleteSubJob(id, ok) /\ Rest
PauseJob(j) == QPauseJob(j) /\ Rest
ResumeJob(j) == QResumeJob(j) /\ Rest
CancelJob(j) == QCancelJob(j) /\ Rest
PauseAllJobs == QPauseAllJobs /\ Rest
ResumeAllJobs == QResumeAllJobs /\ Rest
ClearCompletedJobs == QClearCompletedJobs /\ Rest

Next ==
    \/ SubmitJob("normal")
    \/ \E n \in 1..MaxBatches : ProcessJob(n)
    \/ ProcessJobFails
    \/ GetNextJob("w1")
    \/ \E id \in AllSubIds, ok \in BOOLEAN : CompleteSubJob(id, ok)
    \/ \E j \in 1..MaxJobs : PauseJob(j)
    \/ \E j \in 1..MaxJobs : ResumeJob(j)
    \/ \E j \in 1..MaxJobs : CancelJob(j)
    \/ PauseAllJobs
    \/ ResumeAllJobs
    \/ ClearCompletedJobs

Spec == Init /\ [][Next]_vars

\* ------------------------- SpecDispatch: submissions and runs of /jobs/next
\* A run is a sequence of get_next_job calls with nothing in between; a
\* submission ends it and the next run starts on what is then pending.
PendingCount(m) == Cardinality({i \in 1..Len(m.sub_jobs) : m.sub_jobs[i].status = "pending"})

NewRun ==
    /\ calls' = 0
    /\ avail' = PendingCount(Mgr(jobs', sub_jobs', job_cache'))
    /\ handed' = [id \in AllSubIds |-> 0]

DispatchSubmit(p) == QSubmitJob(p) /\ NewRun /\ UNCHANGED <<trail, refVars, farmVars, nodeVars, batchVars>>
DispatchProcess(n) == QProcessJob(n) /\ NewRun /\ UNCHANGED <<trail, refVars, farmVars, nodeVars, batchVars>>

DispatchPull(w) ==
    LET got == get_next_job(Cur, w, TRUE).ret IN
    /\ calls < MaxCalls
    /\ QGetNextJob(w)
    /\ calls' = calls + 1
    /\ handed' = IF got = NoSub THEN handed ELSE [handed EXCEPT ![got] = @ + 1]
    /\ UNCHANGED <<avail, trail, refVars, farmVars, nodeVars, batchVars>>

Priorities == {"critical", "normal"}
Workers == {"w1", "w2"}

NextDispatch ==
    \/ \E p \in Priorities : DispatchSubmit(p)
    \/ \E n \in 1..MaxBatches : DispatchProcess(n)
    \/ \E w \in Workers : DispatchPull(w)

SpecDispatch == Init /\ [][NextDispatch]_vars

\* --------------------------- SpecCore: submit, pull, report, with the trail
\* trail[id].st: "none", "claimed" (returned by get_next_job), "done" (then
\* reported with success = true), "void" (reported unclaimed, or as failed);
\* trail[id].cached: some call returned it from the ready cache.
CoreRest == UNCHANGED <<runVars, refVars, farmVars, nodeVars, batchVars>>

CoreSubmit(p) == QSubmitJob(p) /\ UNCHANGED trail /\ CoreRest
CoreProcess(n) == QProcessJob(n) /\ UNCHANGED trail /\ CoreRest

CorePull(w) ==
    LET got == get_next_job(Cur, w, TRUE).ret
        hit == get_job_from_cache(job_cache, w).found
    IN  /\ QGetNextJob(w)
        /\ trail' = IF got = NoSub THEN trail
                    ELSE [trail EXCEPT ![got] =
                            [st |-> IF @.st = "void" THEN "void" ELSE "claimed",
                             cached |-> @.cached \/ hit]]
        /\ CoreRest

CoreComplete(id, ok) ==
    /\ QCompleteSubJob(id, ok)
    /\ trail' = [trail EXCEPT ![id].st =
                    IF ok /\ @ \in {"claimed", "done"} THEN "done" ELSE "void"]
    /\ CoreRest

NextCore ==
    \/ CoreSubmit("normal")
    \/ \E n \in 1..MaxBatches : CoreProcess(n)
    \/ \E w \in Workers : CorePull(w)
    \/ \E id \in AllSubIds, ok \in BOOLEAN : CoreComplete(id, ok)

SpecCore == Init /\ [][NextCore]_vars

\* ------------- SpecAdvisory: each call also made on a Store-only manager
Ref == Mgr(ref_jobs, ref_sub_jobs, <<>>)

InstallRef(m) ==
    /\ ref_jobs' = m.jobs
    /\ ref_sub_jobs' = m.sub_jobs

NoReturn == ret' = NoSub /\ ref_ret' = NoSub

\* The two runs are compared up to their first difference.
InStep == ret = ref_ret /\ jobs = ref_jobs /\ sub_jobs = ref_sub_jobs
AdvRest == InStep /\ UNCHANGED <<runVars, trail, batchVars, farmVars, nodeVars>>

AdvSubmit(p) ==
    /\ QSubmitJob(p)
    /\ InstallRef(submit_job(Ref, issued + 1, p, issued + 1))
    /\ NoReturn /\ AdvRest

AdvProcess(n) ==
    /\ QProcessJob(n)
    /\ InstallRef(create_sub_jobs(Ref, ui_job, n))
    /\ NoReturn /\ AdvRest

AdvPull(w) ==
    /\ QGetNextJob(w)
    /\ InstallRef(get_next_job(Ref, w, FALSE).m)
    /\ ret' = get_next_job(Cur, w, TRUE).ret
    /\ ref_ret' = get_next_job(Ref, w, FALSE).ret
    /\ AdvRest

AdvComplete(id, ok) ==
    /\ QCompleteSubJob(id, ok)
    /\ InstallRef(complete_sub_job(Ref, id, ok, FALSE))
    /\ NoReturn /\ AdvRest

AdvPause(j) == QPauseJob(j) /\ InstallRef(pause_job(Ref, j)) /\ NoReturn /\ AdvRest
AdvResume(j) == QResumeJob(j) /\ InstallRef(resume_job(Ref, j)) /\ NoReturn /\ AdvRest
AdvCancel(j) == QCancelJob(j) /\ InstallRef(cancel_job(Ref, j)) /\ NoReturn /\ AdvRest

NextAdvisory ==
    \/ AdvSubmit("normal")
    \/ \E n \in 1..MaxBatches : AdvProcess(n)
    \/ AdvPull("w1")
    \/ \E id \in AllSubIds, ok \in BOOLEAN : AdvComplete(id, ok)
    \/ \E j \in 1..MaxJobs : AdvPause(j)
    \/ \E j \in 1..MaxJobs : AdvResume(j)
    \/ \E j \in 1..MaxJobs : AdvCancel(j)

SpecAdvisory == Init /\ [][NextAdvisory]_vars

\* ------------------------------------------ SpecBatch: process_job's batcher
InitBatch ==
    /\ InitQueue /\ InitRun /\ InitTrail /\ InitRef /\ InitWorkers /\ InitNode
    /\ frame_range_str \in SeqsUpTo(LegalTerms, MaxTerms) \ {<<>>}
    /\ batch_size \in 1..MaxBatchSize
    /\ frames = <<>>
    /\ batches = <<>>
    /\ batch_step = "input"

ParseFrameRange ==
    /\ batch_step = "input"
    /\ frames' = parse_frame_range(frame_range_str)
    /\ batch_step' = "parsed"
    /\ UNCHANGED <<frame_range_str, batch_size, batches, queueVars, runVars, trail, refVars, farmVars, nodeVars>>

CreateBatches ==
    /\ batch_step = "parsed"
    /\ batches' = create_batches(frames, batch_size)
    /\ batch_step' = "batched"
    /\ UNCHANGED <<frame_range_str, batch_size, frames, queueVars, runVars, trail, refVars, farmVars, nodeVars>>

NextBatch == ParseFrameRange \/ CreateBatches

SpecBatch == InitBatch /\ [][NextBatch]_vars

\* ------------------------------- SpecSubmit: one submission from the form
\* A comma-separated part that int() refuses ("", "a", "1-2-3", "-3").
BadTerm == <<>>
FormTerms == Terms \cup {BadTerm}
WellFormed(str) == \A i \in 1..Len(str) : str[i] # BadTerm

InitSubmit ==
    /\ InitQueue /\ InitRun /\ InitTrail /\ InitRef /\ InitWorkers /\ InitNode
    /\ frame_range_str \in SeqsUpTo(FormTerms, MaxTerms)
    /\ batch_size \in 1..MaxBatchSize
    /\ frames = <<>>
    /\ batches = <<>>
    /\ batch_step = "form"

SubmitRest == UNCHANGED <<runVars, trail, refVars, farmVars, nodeVars>>

\* submit_job with the frame range field empty: a warning, and return.
FormRejected ==
    /\ batch_step = "form"
    /\ frame_range_str = <<>>
    /\ batch_step' = "rejected"
    /\ UNCHANGED <<queueVars, frame_range_str, batch_size, frames, batches>>
    /\ SubmitRest

\* submit_job past the field checks: queue_manager.submit_job commits the row.
FormSubmitJob(priority) ==
    /\ batch_step = "form"
    /\ frame_range_str # <<>>
    /\ QSubmitJob(priority)
    /\ batch_step' = "submitted"
    /\ UNCHANGED <<frame_range_str, batch_size, frames, batches>>
    /\ SubmitRest

\* process_render_job: parse_frame_range, create_batches, create_sub_jobs.
FormProcessJob ==
    /\ batch_step = "submitted"
    /\ WellFormed(frame_range_str)
    /\ frames' = parse_frame_range(frame_range_str)
    /\ batches' = create_batches(frames', batch_size)
    /\ Install(create_sub_jobs(Cur, ui_job, Len(batches')))
    /\ ui_job' = 0
    /\ batch_step' = "accepted"
    /\ UNCHANGED <<issued, frame_range_str, batch_size>>
    /\ SubmitRest

\* process_render_job when parse_frame_range raises ValueError: the except
\* branch of submit_job shows "Failed to submit job".
FormProcessRaises ==
    /\ batch_step = "submitted"
    /\ ~WellFormed(frame_range_str)
    /\ ui_job' = 0
    /\ batch_step' = "error"
    /\ UNCHANGED <<jobs, sub_jobs, job_cache, issued, frame_range_str, batch_size, frames, batches>>
    /\ SubmitRest

NextSubmit ==
    \/ FormRejected
    \/ \E p \in Priorities : FormSubmitJob(p)
    \/ FormProcessJob
    \/ FormProcessRaises

SpecSubmit == InitSubmit /\ [][NextSubmit]_vars

\* ------------------------------------- SpecFarm: workers, heartbeats, time
\* The registry as a record, as Mgr is for the queue.
Reg(w, c, l) == [workers |-> w, worker_cache |-> c, last_db_heartbeat |-> l]
CurReg == Reg(workers, worker_cache, last_db_heartbeat)

\* f with key k set to v (dict assignment; INSERT OR REPLACE).
Put(f, k, v) == [x \in DOMAIN f \cup {k} |-> IF x = k THEN v ELSE f[x]]
\* f without the keys in S (del; DELETE).
Drop(f, S) == [x \in DOMAIN f \ S |-> f[x]]

\* register_worker: INSERT OR REPLACE ... 'online', CURRENT_TIMESTAMP.
register_worker(r, worker_id) ==
    [r EXCEPT !.workers = Put(r.workers, worker_id, [status |-> "online", last_heartbeat |-> 0])]

\* worker_heartbeat: the cache entry is always rewritten; the row is written
\* when more than 30 s have passed since the last write for this worker (a
\* worker never written counts from time 0). The UPDATE matches no row when
\* the worker is not registered. The cache is trimmed only beyond
\* cache_max_size entries.
worker_heartbeat(r, worker_id) ==
    LET due == worker_id \notin DOMAIN r.last_db_heartbeat
               \/ r.last_db_heartbeat[worker_id] > db_write_interval
        cache1 == Put(r.worker_cache, worker_id, [updated_at |-> 0])
    IN  IF due
        THEN Reg(IF worker_id \in DOMAIN r.workers
                 THEN Put(r.workers, worker_id, [status |-> "online", last_heartbeat |-> 0])
                 ELSE r.workers,
                 cache1,
                 Put(r.last_db_heartbeat, worker_id, 0))
        ELSE [r EXCEPT !.worker_cache = cache1]

\* remove_worker: DELETE FROM workers WHERE id = ?
remove_worker(r, worker_id) == [r EXCEPT !.workers = Drop(r.workers, {worker_id})]

\* stop_worker: UPDATE workers SET status = 'stopped' WHERE id = ?
stop_worker(r, worker_id) ==
    [r EXCEPT !.workers = [x \in DOMAIN r.workers |->
        IF x = worker_id THEN [r.workers[x] EXCEPT !.status = "stopped"] ELSE r.workers[x]]]

\* The Store count of get_online_workers.
store_online_count(r) ==
    Cardinality({x \in DOMAIN r.workers :
        r.workers[x].status = "online" /\ r.workers[x].last_heartbeat < db_online_window})

\* get_online_workers, with cache_enabled = True
get_online_workers(r) ==
    LET online_count == Cardinality({x \in DOMAIN r.worker_cache :
                            r.worker_cache[x].updated_at < cache_online_window})
    IN  IF DOMAIN r.worker_cache # {} /\ online_count > 0
        THEN online_count
        ELSE store_online_count(r)

\* get_all_workers: worker id -> actual_status
get_all_workers(r) ==
    [x \in DOMAIN r.workers |->
        IF r.workers[x].last_heartbeat < db_online_window THEN "Online" ELSE "Offline"]

\* optimize_cache on worker_cache: entries older than stale_threshold go. An
\* entry whose age has reached MaxAge may be that old.
StaleCandidates(cache) ==
    {x \in DOMAIN cache : cache[x].updated_at > stale_threshold \/ cache[x].updated_at = MaxAge}
optimize_worker_cache(cache, stale_workers) == Drop(cache, stale_workers)

\* Time passing by d seconds.
Older(age, d) == IF age + d > MaxAge THEN MaxAge ELSE age + d
Aged(r, d) ==
    Reg([x \in DOMAIN r.workers |->
            [r.workers[x] EXCEPT !.last_heartbeat = Older(@, d)]],
        [x \in DOMAIN r.worker_cache |->
            [r.worker_cache[x] EXCEPT !.updated_at = Older(@, d)]],
        [x \in DOMAIN r.last_db_heartbeat |-> Older(r.last_db_heartbeat[x], d)])

\* Seconds since worker w's last heartbeat; every heartbeat rewrites the
\* cache entry.
Silence(r, w) ==
    IF w \in DOMAIN r.worker_cache THEN r.worker_cache[w].updated_at ELSE MaxAge

InstallReg(r) ==
    /\ workers' = r.workers
    /\ worker_cache' = r.worker_cache
    /\ last_db_heartbeat' = r.last_db_heartbeat

FarmRest == UNCHANGED <<runVars, trail, refVars, batchVars, nodeVars>>

\* POST /api/workers/register
Register(w) ==
    /\ InstallReg(register_worker(CurReg, w))
    /\ late' = late \ {w}
    /\ UNCHANGED queueVars /\ FarmRest

\* POST /api/workers/heartbeat
Heartbeat(w) ==
    /\ InstallReg(worker_heartbeat(CurReg, w))
    /\ UNCHANGED <<late, queueVars>> /\ FarmRest

\* The operator's Remove Worker and Stop Worker buttons.
RemoveWorker(w) ==
    /\ w \in DOMAIN workers
    /\ InstallReg(remove_worker(CurReg, w))
    /\ UNCHANGED <<late, queueVars>> /\ FarmRest

StopWorker(w) ==
    /\ w \in DOMAIN workers
    /\ InstallReg(stop_worker(CurReg, w))
    /\ UNCHANGED <<late, queueVars>> /\ FarmRest

\* heartbeat_interval seconds pass. A worker from which nothing was heard for
\* an interval already has now let more than an interval pass.
Tick ==
    /\ InstallReg(Aged(CurReg, heartbeat_interval))
    /\ late' = late \cup {w \in DOMAIN workers \cup DOMAIN worker_cache :
                            Silence(CurReg, w) >= heartbeat_interval}
    /\ UNCHANGED queueVars /\ FarmRest

FarmSubmit(p) ==
    /\ issued < FarmJobs
    /\ QSubmitJob(p)
    /\ UNCHANGED farmVars /\ FarmRest

FarmProcess(n) == QProcessJob(n) /\ UNCHANGED farmVars /\ FarmRest

FarmPull(w) == QGetNextJob(w) /\ UNCHANGED farmVars /\ FarmRest

\* POST /api/jobs/complete; the call that is due runs optimize_cache on both
\* caches.
FarmComplete(id, w, ok) ==
    /\ PostComplete(id, w, ok)
    /\ \E stale_workers \in SUBSET StaleCandidates(worker_cache) :
          /\ RowOf(Cur, id) = {} => stale_workers = {}
          /\ worker_cache' = optimize_worker_cache(worker_cache, stale_workers)
    /\ UNCHANGED <<workers, last_db_heartbeat, late>> /\ FarmRest

\* The registry alone: no job is submitted, so no completion finds a row and
\* optimize_cache is never due.
NextWorkers ==
    \/ \E w \in Workers : Register(w)
    \/ \E w \in Workers : Heartbeat(w)
    \/ \E w \in Workers : RemoveWorker(w)
    \/ \E w \in Workers : StopWorker(w)
    \/ Tick

SpecWorkers == Init /\ [][NextWorkers]_vars

\* The farm: the workers of Renderers register and pull work; the others are
\* machines whose heartbeat loop runs throughout.
Renderers == {"w1"}
Alive == Workers \ Renderers

NextFarm ==
    \/ \E w \in Renderers : Register(w)
    \/ \E w \in Workers : Heartbeat(w)
    \/ Tick
    \/ FarmSubmit("normal")
    \/ FarmProcess(1)
    \/ \E w \in Renderers : FarmPull(w)
    \/ \E id \in AllSubIds, w \in Workers, ok \in BOOLEAN : FarmComplete(id, w, ok)

\* The sub-jobs of the farm and the workers they can be running for.
FarmSubIds == (1..FarmJobs) \X {1}

\* Time passes, and heartbeat_loop of a running worker_node keeps posting; a
\* renderer may die at any moment, so nothing is assumed of it.
SpecFarm ==
    /\ Init
    /\ [][NextFarm]_vars
    /\ WF_vars(Tick)
    /\ \A w \in Alive : WF_vars(Heartbeat(w))

\* ------------------------------------------- SpecApi: the HTTP routes
\* Requests are well-formed (no missing field, valid JSON), and the manager
\* raises nothing, so neither 400 nor 500 is answered.
Answer(path, key, status) ==
    /\ response.n < MaxRequests
    /\ response' = [n |-> response.n + 1, path |-> path, key |-> key, status |-> status]

ApiRest == UNCHANGED <<runVars, trail, refVars, batchVars, render, threads, current_jobs, polled, cache_log, pool>>

\* POST /api/workers/register: {'status': 'registered'}
ApiRegister(w) ==
    /\ InstallReg(register_worker(CurReg, w))
    /\ Answer("register", w, 200)
    /\ UNCHANGED <<late, queueVars>> /\ ApiRest

\* POST /api/workers/heartbeat: {'status': 'ok', ...}
ApiHeartbeat(w) ==
    /\ InstallReg(worker_heartbeat(CurReg, w))
    /\ Answer("heartbeat", w, 200)
    /\ UNCHANGED <<late, queueVars>> /\ ApiRest

\* GET /api/jobs/next?worker_id=w: the job with 200, or 204
ApiNext(w) ==
    /\ QGetNextJob(w)
    /\ Answer("next", w, IF get_next_job(Cur, w, TRUE).ret # NoSub THEN 200 ELSE 204)
    /\ UNCHANGED farmVars /\ ApiRest

\* POST /api/jobs/complete: {'status': 'updated'}
ApiComplete(id, w, ok) ==
    /\ PostComplete(id, w, ok)
    /\ Answer("complete", id, 200)
    /\ UNCHANGED farmVars /\ ApiRest

\* The operator: submission, Remove Worker, Clear Completed.
ApiSubmit(p) ==
    /\ issued < FarmJobs
    /\ QSubmitJob(p)
    /\ UNCHANGED <<farmVars, response>> /\ ApiRest

ApiProcess(n) == QProcessJob(n) /\ UNCHANGED <<farmVars, response>> /\ ApiRest

ApiRemoveWorker(w) ==
    /\ w \in DOMAIN workers
    /\ InstallReg(remove_worker(CurReg, w))
    /\ UNCHANGED <<late, queueVars, response>> /\ ApiRest

ApiClearCompleted == QClearCompletedJobs /\ UNCHANGED <<farmVars, response>> /\ ApiRest

NextApi ==
    \/ \E w \in Workers : ApiRegister(w)
    \/ \E w \in Workers : ApiHeartbeat(w)
    \/ \E w \in Workers : ApiNext(w)
    \/ \E id \in AllSubIds, w \in Workers, ok \in BOOLEAN : ApiComplete(id, w, ok)
    \/ ApiSubmit("normal")
    \/ \E n \in 1..MaxBatches : ApiProcess(n)
    \/ \E w \in Workers : ApiRemoveWorker(w)
    \/ ApiClearCompleted

SpecApi == Init /\ [][NextApi]_vars

\* ------------------------------ SpecRender: one call of execute_render_job
\* The renderers of the configuration, with timeout_multiplier in tenths
\* (1.0, 1.5, 2.0).
renderers == [nuke |-> 10, silhouette |-> 15, fusion |-> 20]
RendererKinds == DOMAIN renderers

\* The frame ranges create_batches writes: <<s>> for "s", <<s, e>> for "s-e".
BatchStrings == {<<a>> : a \in 1..MaxFrame} \cup
                {fr \in (1..MaxFrame) \X (1..MaxFrame) : fr[1] < fr[2]}

\* The timeout each render_*_production computes before Popen. Nuke and
\* Fusion: int(end_frame) - int(start_frame) + 1 if '-' in frame_range else 1.
\* Silhouette: len(frame_range.split('-')) if '-' in frame_range else 1.
frame_count_of(renderer, frame_range) ==
    IF Len(frame_range) = 1 THEN 1
    ELSE IF renderer = "silhouette" THEN Len(frame_range)
    ELSE frame_range[2] - frame_range[1] + 1

render_timeout(renderer, frame_range) ==
    frame_count_of(renderer, frame_range) * timeout_per_frame

\* Return codes of the subprocess: ended by itself or after terminate with a
\* code of its own, ended by SIGTERM, ended by kill.
ExitCodes == {0, 1}
SIGTERM == -15
SIGKILL == -9

InitRender ==
    /\ InitQueue /\ InitRun /\ InitTrail /\ InitRef /\ IdleBatcher /\ InitWorkers
    /\ threads = <<>>
    /\ current_jobs = <<>>
    /\ polled = NULL
    /\ response = [n |-> 0, path |-> "none", key |-> NULL, status |-> 0]
    /\ cache_log = [order |-> <<>>, evicted |-> <<>>, handed |-> {}]
    /\ pool = <<>>
    /\ render \in [pc : {"called"}, renderer : RendererKinds, frame_range : BatchStrings,
                   available : BOOLEAN, listed : {FALSE}, spawned : {FALSE},
                   timeout : {0}, ran_over : {FALSE}, killed : {FALSE},
                   returncode : {NULL}, success : {FALSE}, reports : {<<>>}]

RenderRest ==
    UNCHANGED <<queueVars, runVars, trail, refVars, batchVars, farmVars,
                threads, current_jobs, polled, response, cache_log, pool>>

\* self.current_jobs[sub_job_id] = {...}, before the try.
ExecEnter ==
    /\ render.pc = "called"
    /\ render' = [render EXCEPT !.listed = TRUE, !.pc = "try"]
    /\ RenderRest

\* renderer not in self.capabilities['renderers'], or not validated: raise.
ExecValidate ==
    /\ render.pc = "try"
    /\ render' = [render EXCEPT !.pc = IF render.available THEN "render" ELSE "except"]
    /\ RenderRest

\* render_*_production up to Popen: a missing executable or project file, or
\* anything raised on the way, returns False without a subprocess.
RenderSpawn(ok) ==
    /\ render.pc = "render"
    /\ render' = IF ok
                 THEN [render EXCEPT !.spawned = TRUE,
                                     !.timeout = render_timeout(render.renderer, render.frame_range),
                                     !.pc = "monitor"]
                 ELSE [render EXCEPT !.success = FALSE, !.pc = "report"]
    /\ RenderRest

\* monitor_process: the subprocess ends within the timeout.
MonitorExit(code) ==
    /\ render.pc = "monitor"
    /\ render' = [render EXCEPT !.returncode = code, !.pc = "analyze"]
    /\ RenderRest

\* monitor_process: elapsed > timeout; process.terminate(), time.sleep(5).
MonitorTerminate ==
    /\ render.pc = "monitor"
    /\ render' = [render EXCEPT !.ran_over = TRUE, !.pc = "terminated"]
    /\ RenderRest

\* monitor_process after the wait: kill if poll() is still None; the
\* TimeoutExpired raised next is caught by monitor_process's own
\* `except Exception`, which returns ("", str(e)) to the renderer function.
MonitorKill(alive, code) ==
    /\ render.pc = "terminated"
    /\ render' = [render EXCEPT !.killed = alive,
                                !.returncode = IF alive THEN SIGKILL ELSE code,
                                !.pc = "analyze"]
    /\ RenderRest

\* render_*_production after the subprocess: returncode == 0 gives True,
\* unless collecting the metrics raises.
RenderAnalyze(raised) ==
    /\ render.pc = "analyze"
    /\ render' = [render EXCEPT !.success = (render.returncode = 0 /\ ~raised),
                                !.pc = "report"]
    /\ RenderRest

\* self.report_job_completion(sub_job_id, success, error, metrics)
ExecReport ==
    /\ render.pc = "report"
    /\ render' = [render EXCEPT !.reports = Append(@, render.success), !.pc = "finally"]
    /\ RenderRest

ExecExceptSilent ==
    /\ render.pc = "except"
    /\ render' = [render EXCEPT !.pc = "finally"]
    /\ RenderRest

\* except Exception: self.report_job_completion(sub_job_id, False, error_msg)
ExecExcept ==
    /\ render.pc = "except"
    /\ render' = [render EXCEPT !.reports = Append(@, FALSE), !.pc = "finally"]
    /\ RenderRest

\* finally: del self.current_jobs[sub_job_id]
ExecFinally ==
    /\ render.pc = "finally"
    /\ render' = [render EXCEPT !.listed = FALSE, !.pc = "returned"]
    /\ RenderRest

NextRender ==
    \/ ExecEnter
    \/ ExecValidate
    \/ \E ok \in BOOLEAN : RenderSpawn(ok)
    \/ \E code \in ExitCodes : MonitorExit(code)
    \/ MonitorTerminate
    \/ \E alive \in BOOLEAN, code \in ExitCodes \cup {SIGTERM} : MonitorKill(alive, code)
    \/ \E raised \in BOOLEAN : RenderAnalyze(raised)
    \/ ExecReport
    \/ ExecExcept
    \/ ExecFinally

SpecRender == InitRender /\ [][NextRender]_vars

\* --------------------- SpecNode: the worker's main loop and render threads
max_concurrent_jobs == 1
max_memory_percent == 85
max_cpu_percent == 95
min_disk_free_gb == 5
\* RenderBufferPool(max_buffers=8), scaled to the threads of the model.
max_buffers == 2

\* Samples of metrics_collector.get_current_metrics() on either side of
\* each limit.
Metrics ==
    [memory_percent : {max_memory_percent, max_memory_percent + 1},
     cpu_percent : {max_cpu_percent, max_cpu_percent + 1},
     disk_free_gb : {min_disk_free_gb - 1, min_disk_free_gb}]

check_resource_availability(metrics) ==
    IF metrics.memory_percent > max_memory_percent THEN FALSE
    ELSE IF metrics.cpu_percent > max_cpu_percent THEN FALSE
    ELSE IF metrics.disk_free_gb < min_disk_free_gb THEN FALSE
    ELSE TRUE

\* The mutant: a worker that asks for work whatever its resources are.
requests_next_job_unchecked(held, metrics) ==
    Cardinality(held) < max_concurrent_jobs

\* Worker-side get_next_job up to the request: TRUE iff GET /api/jobs/next
\* is sent (memory_job_cache is never filled, so it never answers).
requests_next_job(held, metrics) ==
    IF Cardinality(held) >= max_concurrent_jobs THEN FALSE
    ELSE IF ~check_resource_availability(metrics) THEN FALSE
    ELSE TRUE

NoPoll == [n |-> 0, metrics |-> NULL, status |-> "none", job |-> NoSub]

\* A RenderBufferPool: buffers are numbered in order of creation, `created`
\* counts the SharedMemory blocks made; `noted[id]` is the 'render_buffer'
\* field of the worker's current_jobs[id], 0 for None.
NoBuffer == 0
NewPool == [available |-> <<>>, in_use |-> <<>>, noted |-> <<>>, created |-> 0]

\* get_buffer: [p, ret]. `made` is whether SharedMemory(create=True) succeeds.
get_buffer(p, job_id, made) ==
    IF p.available # <<>>
    THEN LET buffer == p.available[Len(p.available)] IN
         [p |-> [p EXCEPT !.available = SubSeq(@, 1, Len(@) - 1),
                          !.in_use = Put(@, job_id, buffer)],
          ret |-> buffer]
    ELSE IF Cardinality(DOMAIN p.in_use) < max_buffers
    THEN IF made
         THEN LET buffer == p.created + 1 IN
              [p |-> [p EXCEPT !.created = buffer, !.in_use = Put(@, job_id, buffer)],
               ret |-> buffer]
         ELSE [p |-> p, ret |-> NoBuffer]
    ELSE [p |-> p, ret |-> NoBuffer]

return_buffer(p, job_id) ==
    IF job_id \in DOMAIN p.in_use
    THEN [p EXCEPT !.in_use = Drop(@, {job_id}),
                   !.available = Append(@, p.in_use[job_id])]
    ELSE p

InitLoop ==
    /\ InitQueue /\ InitRun /\ InitTrail /\ InitRef /\ IdleBatcher /\ InitWorkers
    /\ render = IdleRender
    /\ threads = <<>>
    /\ current_jobs = [w \in Workers |-> {}]
    /\ polled = [w \in Workers |-> NoPoll]
    /\ response = [n |-> 0, path |-> "none", key |-> NULL, status |-> 0]
    /\ cache_log = [order |-> <<>>, evicted |-> <<>>, handed |-> {}]
    /\ pool = [w \in Workers |-> NewPool]

NodeRest == UNCHANGED <<runVars, trail, refVars, batchVars, farmVars, render, response, cache_log>>

NodeSubmit(p) ==
    /\ issued < FarmJobs
    /\ QSubmitJob(p)
    /\ UNCHANGED <<threads, current_jobs, polled, pool>> /\ NodeRest

NodeProcess(n) == QProcessJob(n) /\ UNCHANGED <<threads, current_jobs, polled, pool>> /\ NodeRest

\* One iteration of the main loop of start(): get_next_job, and a thread
\* running execute_render_job for the job it returned. `up` is whether the
\* request reaches the server.
NodePoll(w, metrics, up) ==
    LET r == get_next_job(Cur, w, TRUE)
        sent == requests_next_job(current_jobs[w], metrics)
        got == IF sent /\ up THEN r.ret ELSE NoSub
    IN  /\ polled[w].n < MaxPolls
        /\ Len(threads) < MaxThreads
        /\ IF sent /\ up THEN QGetNextJob(w) ELSE UNCHANGED queueVars
        /\ polled' = [polled EXCEPT ![w] =
                        [n |-> @.n + 1, metrics |-> metrics, job |-> got,
                         status |-> IF ~sent THEN "none"
                                    ELSE IF ~up THEN "error"
                                    ELSE IF got # NoSub THEN "job" ELSE "empty"]]
        /\ threads' = IF got # NoSub
                      THEN Append(threads, [w |-> w, id |-> got, pc |-> "started",
                                            reports |-> 0, delivered |-> FALSE,
                                            buffer |-> NoBuffer])
                      ELSE threads
        /\ UNCHANGED <<current_jobs, pool>> /\ NodeRest

\* execute_render_job, first step: the buffer is taken from the pool.
ThreadBorrow(i, made) ==
    LET r == get_buffer(pool[threads[i].w], threads[i].id, made) IN
    /\ threads[i].pc = "started"
    /\ threads' = [threads EXCEPT ![i].pc = "buffered", ![i].buffer = r.ret]
    /\ pool' = [pool EXCEPT ![threads[i].w] = r.p]
    /\ UNCHANGED <<queueVars, current_jobs, polled>> /\ NodeRest

\* execute_render_job up to the entry in current_jobs, after the project
\* file preload; the entry records the buffer.
ThreadEnter(i) ==
    /\ threads[i].pc = "buffered"
    /\ threads' = [threads EXCEPT ![i].pc = "running"]
    /\ current_jobs' = [current_jobs EXCEPT ![threads[i].w] = @ \cup {threads[i].id}]
    /\ pool' = [pool EXCEPT ![threads[i].w].noted = Put(@, threads[i].id, threads[i].buffer)]
    /\ UNCHANGED <<queueVars, polled>> /\ NodeRest

\* The render and report_job_completion: one POST, TRUE iff answered 200,
\* FALSE on a RequestException. A render function that fails by raising
\* returns the buffer of its batch_id in its except branch.
ThreadReport(i, ok, up) ==
    /\ threads[i].pc = "running"
    /\ threads' = [threads EXCEPT ![i].pc = "reported", ![i].reports = @ + 1,
                                  ![i].delivered = up]
    /\ IF up THEN PostComplete(threads[i].id, threads[i].w, ok) ELSE UNCHANGED queueVars
    /\ \E raised \in IF ok THEN {FALSE} ELSE BOOLEAN :
          pool' = IF raised
                  THEN [pool EXCEPT ![threads[i].w] = return_buffer(@, threads[i].id)]
                  ELSE pool
    /\ UNCHANGED <<current_jobs, polled>> /\ NodeRest

\* The finally block: the buffer of the entry goes back to the pool, the
\* entry leaves current_jobs and the thread returns.
ThreadFinally(i) ==
    LET w == threads[i].w
        id == threads[i].id
        p == pool[w]
    IN  /\ threads[i].pc = "reported"
        /\ threads' = [threads EXCEPT ![i].pc = "returned"]
        /\ current_jobs' = [current_jobs EXCEPT ![w] = @ \ {id}]
        /\ pool' = IF id \in current_jobs[w]
                   THEN [pool EXCEPT ![w] =
                           [(IF p.noted[id] # NoBuffer THEN return_buffer(p, id) ELSE p)
                               EXCEPT !.noted = Drop(@, {id})]]
                   ELSE pool
        /\ UNCHANGED <<queueVars, polled>> /\ NodeRest

NextNode ==
    \/ NodeSubmit("normal")
    \/ NodeProcess(MaxBatches)
    \/ \E w \in Workers, metrics \in Metrics, up \in BOOLEAN : NodePoll(w, metrics, up)
    \/ \E i \in 1..Len(threads), made \in BOOLEAN : ThreadBorrow(i, made)
    \/ \E i \in 1..Len(threads) : ThreadEnter(i)
    \/ \E i \in 1..Len(threads), ok \in BOOLEAN, up \in BOOLEAN : ThreadReport(i, ok, up)
    \/ \E i \in 1..Len(threads) : ThreadFinally(i)

SpecNode == InitLoop /\ [][NextNode]_vars

\* ------------------------- SpecFault: Store writes that raise (sqlite3.Error)
\* complete_sub_job when a statement between connect and commit raises: the
\* cache entry was written before the connection was opened, nothing is
\* committed.
complete_sub_job_raises(m, id, success, cache_enabled) ==
    [m EXCEPT !.job_cache = complete_sub_job(m, id, success, cache_enabled).job_cache]

\* get_next_job on the Store path when the SELECT raises ("select": nothing
\* was done yet) or an UPDATE or the commit raises ("update": the rows after
\* the first were cached already).
get_next_job_raises(m, worker_id, cache_enabled, at) ==
    IF at = "update"
    THEN [m EXCEPT !.job_cache = get_next_job(m, worker_id, cache_enabled).m.job_cache]
    ELSE m

FaultRest == UNCHANGED <<runVars, trail, refVars, batchVars, farmVars, render, threads, current_jobs, polled, cache_log, pool>>

FaultSubmit(p) ==
    /\ issued < FarmJobs
    /\ QSubmitJob(p)
    /\ UNCHANGED response /\ FaultRest

FaultProcess(n) == QProcessJob(n) /\ UNCHANGED response /\ FaultRest

FaultPull(w) ==
    /\ QGetNextJob(w)
    /\ Answer("next", w, IF get_next_job(Cur, w, TRUE).ret # NoSub THEN 200 ELSE 204)
    /\ FaultRest

FaultComplete(id, w, ok) ==
    /\ PostComplete(id, w, ok)
    /\ Answer("complete", id, 200)
    /\ FaultRest

\* The exception leaves do_GET: the connection is closed with no answer
\* (status 0).
FaultPullRaises(w, at) ==
    /\ ~get_job_from_cache(job_cache, w).found
    /\ at = "update" => select_pending(Cur) # <<>>
    /\ Install(get_next_job_raises(Cur, w, TRUE, at))
    /\ Answer("next", w, 0)
    /\ UNCHANGED <<issued, ui_job>> /\ FaultRest

\* do_POST answers 500 "Job completion update failed".
FaultCompleteRaises(id, w, ok) ==
    /\ Install(complete_sub_job_raises(Cur, id, ok, TRUE))
    /\ Answer("complete", id, 500)
    /\ UNCHANGED <<issued, ui_job>> /\ FaultRest

NextFault ==
    \/ FaultSubmit("normal")
    \/ \E n \in 1..MaxBatches : FaultProcess(n)
    \/ \E w \in Workers : FaultPull(w)
    \/ \E id \in AllSubIds, w \in Workers, ok \in BOOLEAN : FaultComplete(id, w, ok)
    \/ \E w \in Workers, at \in {"select", "update"} : FaultPullRaises(w, at)
    \/ \E id \in AllSubIds, w \in Workers, ok \in BOOLEAN : FaultCompleteRaises(id, w, ok)

SpecFault == Init /\ [][NextFault]_vars

\* --------------------- SpecCache: the ready cache of a manager of small size
\* The operations of the dispatch section with self.cache_max_size passed as
\* `size`, and with the history of insertions: `log.order` is the keys of
\* the cache, the key inserted first at the head (assigning to a key that is
\* present is no insertion); `log.evicted` collects, for each popitem of the
\* call, the key it removed and the key that was inserted first;
\* `log.handed` is the sub-jobs the manager has returned to a worker.
cache_one_sized(st, id, size) ==
    LET full == Len(st.cache) >= size
        out == st.cache[1].sub_job_id
        c == IF full THEN Tail(st.cache) ELSE st.cache
        order1 == IF full
                  THEN RemoveAt(st.order, CHOOSE i \in 1..Len(st.order) : st.order[i] = out)
                  ELSE st.order
        evicted1 == IF full THEN Append(st.evicted, <<out, Head(st.order)>>) ELSE st.evicted
        e == [sub_job_id |-> id, status |-> "pending"]
        present == \E i \in 1..Len(c) : c[i].sub_job_id = id
    IN  [cache |-> IF present
                   THEN [i \in 1..Len(c) |-> IF c[i].sub_job_id = id THEN e ELSE c[i]]
                   ELSE Append(c, e),
         order |-> IF present THEN order1 ELSE Append(order1, id),
         evicted |-> evicted1]

RECURSIVE cache_each_sized(_, _, _)
cache_each_sized(st, ids, size) ==
    IF ids = <<>> THEN st
    ELSE cache_each_sized(cache_one_sized(st, Head(ids), size), Tail(ids), size)

cache_pending_jobs_sized(st, ids, size) ==
    cache_each_sized(st, SubSeq(ids, 1, IF Len(ids) < CacheUpTo THEN Len(ids) ELSE CacheUpTo), size)

\* get_next_job: [m, ret] as above, and the history afterwards.
get_next_job_sized(m, worker_id, order, size) ==
    LET hit == get_job_from_cache(m.job_cache, worker_id)
        st0 == [cache |-> m.job_cache, order |-> order, evicted |-> <<>>]
    IN  IF hit.found
        THEN [m |-> [m EXCEPT !.job_cache = hit.cache], ret |-> hit.sub_job_id,
              log |-> [order |-> order, evicted |-> <<>>]]
        ELSE LET results == select_pending(m) IN
             IF results = <<>>
             THEN [m |-> m, ret |-> NoSub, log |-> [order |-> order, evicted |-> <<>>]]
             ELSE LET st == IF Len(results) > 1
                            THEN cache_pending_jobs_sized(st0, Tail(results), size)
                            ELSE st0
                  IN  [m |-> claim_in_store([m EXCEPT !.job_cache = st.cache],
                                            results[1], worker_id),
                       ret |-> results[1],
                       log |-> [order |-> st.order, evicted |-> st.evicted]]

\* The keys of `order` that are still keys of the cache.
StillCached(order, cache) ==
    LET F[i \in 0..Len(order)] ==
            IF i = 0 THEN <<>>
            ELSE IF \E k \in 1..Len(cache) : cache[k].sub_job_id = order[i]
                 THEN Append(F[i - 1], order[i]) ELSE F[i - 1]
    IN  F[Len(order)]

CacheRest == UNCHANGED <<trail, refVars, batchVars, farmVars, render, threads, current_jobs, polled, response, pool>>

CacheSubIds == (1..MaxJobs) \X (1..CacheBatches)

\* Submission and batching as in QSubmitJob and QProcessJob, with the row
\* bounds of this specification.
CacheSubmit(p) ==
    /\ ui_job = 0
    /\ issued < MaxJobs
    /\ Len(sub_jobs) < CacheRows
    /\ Install(submit_job(Cur, issued + 1, p, issued + 1))
    /\ issued' = issued + 1
    /\ ui_job' = issued + 1
    /\ UNCHANGED <<runVars, cache_log>> /\ CacheRest

CacheProcess(n) ==
    /\ ui_job # 0
    /\ Len(sub_jobs) + n <= CacheRows
    /\ Install(create_sub_jobs(Cur, ui_job, n))
    /\ ui_job' = 0
    /\ UNCHANGED <<issued, runVars, cache_log>> /\ CacheRest

\* GET /api/jobs/next; `calls` counts the calls of the behaviour.
CachePull(w) ==
    LET r == get_next_job_sized(Cur, w, cache_log.order, CacheCap) IN
    /\ calls < MaxPulls
    /\ calls' = calls + 1
    /\ Install(r.m)
    /\ cache_log' = [order |-> r.log.order, evicted |-> r.log.evicted,
                     handed |-> IF r.ret = NoSub THEN cache_log.handed
                                ELSE cache_log.handed \cup {r.ret}]
    /\ UNCHANGED <<issued, ui_job, avail, handed>> /\ CacheRest

\* POST /api/jobs/complete from the worker the sub-job was returned to; the
\* entries optimize_cache deletes leave the history too.
CacheComplete(id, ok) ==
    /\ id \in cache_log.handed
    /\ QCompleteSubJob(id, ok)
    /\ cache_log' = [cache_log EXCEPT !.order = StillCached(cache_log.order, job_cache'),
                                      !.evicted = <<>>]
    /\ UNCHANGED runVars /\ CacheRest

NextCache ==
    \/ CacheSubmit("normal")
    \/ \E n \in 1..CacheBatches : CacheProcess(n)
    \/ CachePull("w1")
    \/ \E id \in CacheSubIds, ok \in BOOLEAN : CacheComplete(id, ok)

SpecCache == Init /\ [][NextCache]_vars

\* ------------------------------------------------------------------ claims
OfJob(j) == {i \in 1..Len(sub_jobs) : sub_jobs[i].parent_job_id = j}
StatusCount(subs, j, status) ==
    Cardinality({i \in 1..Len(subs) : subs[i].parent_job_id = j /\ subs[i].status = status})
Terminal == {"completed", "failed", "cancelled"}

RECURSIVE SumOver(_, _)
SumOver(f, S) == IF S = {} THEN 0 ELSE LET x == CHOOSE x \in S : TRUE IN f[x] + SumOver(f, S \ {x})

\* C1 (SpecDispatch). Exclusive assignment: in a run of N get_next_job calls
\* against M pending sub-jobs, no sub-job is returned by two calls and the
\* calls return min(N, M) sub-jobs in all.
C1_ExclusiveAssignment ==
    /\ \A id \in AllSubIds : handed[id] <= 1
    /\ SumOver(handed, AllSubIds) = (IF calls < avail THEN calls ELSE avail)

\* What a get_next_job call by w returns in the current state.
Got(w) == get_next_job(Cur, w, TRUE).ret

\* C2 (SpecDispatch). The claim is written through: when get_next_job returns
\* sub-job S to worker W, the Store row of S is running with worker_id W and
\* started_at set when the call returns, and a pending parent is running.
C2_ClaimWrittenThrough ==
    [][\A w \in Workers :
        (QGetNextJob(w) /\ Got(w) # NoSub) =>
            /\ \E i \in 1..Len(sub_jobs') :
                  /\ sub_jobs'[i].id = Got(w)
                  /\ sub_jobs'[i].status = "running"
                  /\ sub_jobs'[i].worker_id = w
                  /\ sub_jobs'[i].started_at # NULL
            /\ jobs[Got(w)[1]].status = "pending" => jobs'[Got(w)[1]].status = "running"]_vars

\* The order of the claim: parent priority, then parent created_at, then
\* batch index; row a comes strictly before row b.
DispatchBefore(a, b) ==
    LET ja == jobs[sub_jobs[a].parent_job_id]
        jb == jobs[sub_jobs[b].parent_job_id]
    IN  \/ PriorityRank(ja.priority) < PriorityRank(jb.priority)
        \/ /\ PriorityRank(ja.priority) = PriorityRank(jb.priority)
           /\ \/ ja.created_at < jb.created_at
              \/ /\ ja.created_at = jb.created_at
                 /\ sub_jobs[a].batch_number < sub_jobs[b].batch_number

\* No sub-job that is pending in the Store and was not yet returned to a
\* worker comes before sub-job id.
LeastPending(id) ==
    \A i, k \in 1..Len(sub_jobs) :
        (sub_jobs[i].id = id /\ sub_jobs[k].status = "pending" /\ handed[sub_jobs[k].id] = 0)
            => ~DispatchBefore(k, i)

\* C3 (SpecDispatch). Priority order: no sub-job still waiting to be handed
\* out comes, in that order, before the sub-job a get_next_job call returns.
C3_PriorityOrder ==
    [][\A w \in Workers :
        (QGetNextJob(w) /\ Got(w) # NoSub) => LeastPending(Got(w))]_vars

\* C4 (SpecAdvisory). The ready cache is advisory: the same calls on a manager
\* with the cache and on one without return the same sub-jobs and leave equal
\* Stores.
C4_CacheIsAdvisory == ret = ref_ret /\ jobs = ref_jobs /\ sub_jobs = ref_sub_jobs

\* The frames a frame-range string denotes.
FrameSet(str) == UNION {TermFrames(str[i]) : i \in 1..Len(str)}

\* C5 (SpecBatch). Batching round trip: the batches are runs of at most
\* batch_size frames and cover exactly the frames of the string, so that no
\* batch runs across a gap.
C5_BatchingRoundTrip ==
    batch_step = "batched" =>
        /\ \A i \in 1..Len(batches) : Cardinality(rendered_frames(batches[i])) <= batch_size
        /\ UNION {rendered_frames(batches[i]) : i \in 1..Len(batches)} = FrameSet(frame_range_str)

\* C6 (Spec). Progress invariant I1: a job's stored progress is the share of
\* its sub-jobs that are completed. The share is accepted as a fraction and as
\* a percentage.
C6_ProgressInvariant ==
    \A j \in DOMAIN jobs :
        OfJob(j) # {} =>
            \/ jobs[j].progress = Ratio(StatusCount(sub_jobs, j, "completed"), Cardinality(OfJob(j)))
            \/ jobs[j].progress = Ratio(100 * StatusCount(sub_jobs, j, "completed"), Cardinality(OfJob(j)))

\* A report is valid when its sub-job is in the Store and not yet terminal.
ValidReport(id) ==
    \E i \in 1..Len(sub_jobs) : sub_jobs[i].id = id /\ sub_jobs[i].status \notin Terminal

RatLeq(p, q) == p[1] * q[2] <= q[1] * p[2]

\* The step is a complete_sub_job(id, ok) call on a sub-job that is in the
\* Store and not yet terminal.
ValidCall(id, ok) ==
    /\ ValidReport(id)
    /\ jobs' = complete_sub_job(Cur, id, ok, TRUE).jobs
    /\ sub_jobs' = complete_sub_job(Cur, id, ok, TRUE).sub_jobs

C8_ParentTerminality ==
    \A j \in DOMAIN jobs :
        OfJob(j) # {} =>
            /\ jobs[j].status = "completed" <=>
                   StatusCount(sub_jobs, j, "completed") = Cardinality(OfJob(j))
            /\ jobs[j].status = "running" <=>
                   /\ StatusCount(sub_jobs, j, "running") > 0
                   /\ StatusCount(sub_jobs, j, "failed") = 0
                   /\ StatusCount(sub_jobs, j, "cancelled") = 0

AllTerminal(j) == \A i \in OfJob(j) : sub_jobs[i].status \in Terminal

\* C9 (SpecCore). Failure propagation: once all sub-jobs of a job that workers
\* have begun are terminal, the job is not running, and it is failed when one
\* of them is failed.
C9_FailurePropagation ==
    \A j \in DOMAIN jobs :
        (OfJob(j) # {} /\ AllTerminal(j) /\ jobs[j].status # "pending") =>
            /\ jobs[j].status # "running"
            /\ StatusCount(sub_jobs, j, "failed") > 0 => jobs[j].status = "failed"

AllDone(j) == \A i \in OfJob(j) : trail[sub_jobs[i].id].st = "done"

\* C10 (SpecCore). Happy path: when every sub-job of a job was returned by
\* get_next_job and then reported with success = true, and none was reported
\* failed, the job is completed and all its sub-jobs are completed in the
\* Store, those returned from the ready cache too.
C10_HappyPathCompletion ==
    \A j \in DOMAIN jobs :
        (OfJob(j) # {} /\ AllDone(j)) =>
            /\ jobs[j].status = "completed"
            /\ \A i \in OfJob(j) : sub_jobs[i].status = "completed"

\* A job of two sub-jobs, one of them returned from the ready cache, both
\* reported: the job is completed.
C10_Witness ==
    \E j \in DOMAIN jobs :
        /\ Cardinality(OfJob(j)) = 2
        /\ AllDone(j)
        /\ \E i \in OfJob(j) : trail[sub_jobs[i].id].cached
        /\ jobs[j].status = "completed"

\* Sub-job id is running with worker_id w in the Store.
Assigned(id, w) ==
    \E i \in 1..Len(sub_jobs) :
        /\ sub_jobs[i].id = id
        /\ sub_jobs[i].status = "running"
        /\ sub_jobs[i].worker_id = w

\* C11 (SpecCore). Ownership check on completion: a report for sub-job S from
\* worker W, when S is not running with worker_id W in the Store, changes no
\* sub-job, job or cache state.
C11_OwnershipCheck ==
    [][\A id \in AllSubIds, ok \in BOOLEAN, w \in Workers :
        (PostComplete(id, w, ok) /\ ~Assigned(id, w)) =>
            UNCHANGED <<jobs, sub_jobs, job_cache>>]_vars

\* The step changes the Store as a complete_sub_job(id, ok) call does.
ReportStep(id, ok) ==
    /\ jobs' = complete_sub_job(Cur, id, ok, TRUE).jobs
    /\ sub_jobs' = complete_sub_job(Cur, id, ok, TRUE).sub_jobs

IsTerminal(id) ==
    \E i \in 1..Len(sub_jobs) : sub_jobs[i].id = id /\ sub_jobs[i].status \in Terminal

\* C12 (Spec). Completion idempotence P6: complete_sub_job on a sub-job that is
\* already completed, failed or cancelled leaves the sub-job's status, the
\* parent job's status and the parent job's progress as they were.
C12_CompletionIdempotence ==
    [][\A id \in AllSubIds, ok \in BOOLEAN :
        (ReportStep(id, ok) /\ IsTerminal(id)) =>
            /\ \A i \in 1..Len(sub_jobs) :
                  sub_jobs[i].id = id => sub_jobs'[i].status = sub_jobs[i].status
            /\ jobs'[id[1]].status = jobs[id[1]].status
            /\ jobs'[id[1]].progress = jobs[id[1]].progress]_vars

\* C14 (Spec). Atomic job insertion: no committed state of the Store holds a
\* job without its sub-jobs.
C14_AtomicInsertion == \A j \in DOMAIN jobs : OfJob(j) # {}

\* C16 (Spec). Terminal jobs are immutable: a job that is completed, failed or
\* cancelled keeps its status and progress in every step that does not delete
\* it.
C16_TerminalImmutable ==
    [][\A j \in DOMAIN jobs :
        (jobs[j].status \in Terminal /\ j \in DOMAIN jobs') =>
            /\ jobs'[j].status = jobs[j].status
            /\ jobs'[j].progress = jobs[j].progress]_vars

\* The step changes the Store as cancel_job(j) does.
CancelStep(j) ==
    /\ j \in DOMAIN jobs
    /\ jobs' = cancel_job(Cur, j).jobs
    /\ sub_jobs' = cancel_job(Cur, j).sub_jobs

\* C17 (Spec). Cancellation is effective: cancel_job(J) leaves every sub-job of
\* J cancelled in the Store; while J is cancelled no get_next_job call returns
\* a sub-job of J, and a completion report for a sub-job of J leaves that
\* sub-job cancelled and J cancelled.
C17_CancelEffective ==
    [][\A j \in DOMAIN jobs :
        /\ CancelStep(j) => \A i \in OfJob(j) : sub_jobs'[i].status = "cancelled"
        /\ jobs[j].status = "cancelled" =>
              /\ \A w \in Workers : QGetNextJob(w) => Got(w)[1] # j
              /\ \A id \in AllSubIds, ok \in BOOLEAN :
                    (id[1] = j /\ ReportStep(id, ok)) =>
                        /\ jobs'[j].status = "cancelled"
                        /\ \A i \in OfJob(j) :
                              sub_jobs[i].status = "cancelled" =>
                                  sub_jobs'[i].status = "cancelled"]_vars

\* The step changes the Store as pause_job(j) / resume_job(j) does.
PauseStep(j) ==
    /\ j \in DOMAIN jobs
    /\ jobs' = pause_job(Cur, j).jobs
    /\ sub_jobs' = pause_job(Cur, j).sub_jobs

ResumeStep(j) ==
    /\ j \in DOMAIN jobs
    /\ jobs' = resume_job(Cur, j).jobs
    /\ sub_jobs' = resume_job(Cur, j).sub_jobs

\* Rows of sub_jobs: those of job j in status `from` now have status `to` and
\* are otherwise as before; every other row is as before.
OnlyMoved(j, from, to) ==
    /\ Len(sub_jobs') = Len(sub_jobs)
    /\ \A i \in 1..Len(sub_jobs) :
          IF sub_jobs[i].parent_job_id = j /\ sub_jobs[i].status = from
          THEN sub_jobs'[i] = [sub_jobs[i] EXCEPT !.status = to]
          ELSE sub_jobs'[i] = sub_jobs[i]

\* C18 (Spec). Pause/resume transitions: pause_job(J) changes exactly the
\* running sub-jobs of J to paused, resume_job(J) exactly the paused sub-jobs
\* of J to pending; all other sub-jobs are left as they were.
C18_PauseResumeFrame ==
    [][\A j \in 1..MaxJobs :
        /\ PauseStep(j) => OnlyMoved(j, "running", "paused")
        /\ ResumeStep(j) => OnlyMoved(j, "paused", "pending")]_vars

\* A paused job with a paused sub-job next to a sub-job that was not running
\* and kept its status, while a sub-job of another job is still running.
C18_Witness ==
    \E j \in DOMAIN jobs :
        /\ jobs[j].status = "paused"
        /\ \E i, k \in OfJob(j) :
              sub_jobs[i].status = "paused" /\ sub_jobs[k].status = "pending"
        /\ \E i \in 1..Len(sub_jobs) :
              sub_jobs[i].parent_job_id # j /\ sub_jobs[i].status = "running"

\* C15 (SpecSubmit). Rejected submissions leave no trace: when the submission
\* of a job with an empty or malformed frame range has ended with the warning
\* or the error, the Store holds no job row and no sub-job row of it.
C15_RejectedLeavesNoTrace ==
    batch_step \in {"rejected", "error"} => (DOMAIN jobs = {} /\ sub_jobs = <<>>)

\* Sub-job id is running for worker w, whose last heartbeat is MaxAge seconds
\* old or older and which has not registered again since.
Lost(id, w) ==
    /\ Assigned(id, w)
    /\ w \in DOMAIN worker_cache
    /\ Silence(CurReg, w) >= MaxAge
    /\ w \in DOMAIN workers => workers[w].last_heartbeat >= MaxAge

\* C13 (SpecFarm). Lost-worker reclaim: a sub-job that is running for a worker
\* silent for the reclaim window or longer eventually stops being running for
\* that silent worker (it is returned to pending, or the worker is heard of
\* again).
C13_LostWorkerReclaim ==
    \A id \in FarmSubIds : \A w \in Renderers :
        Lost(id, w) ~> ~Lost(id, w)

\* Worker w is registered and its heartbeats have come at intervals of at most
\* heartbeat_interval so far.
Punctual(w) ==
    /\ w \in DOMAIN workers
    /\ w \in DOMAIN worker_cache
    /\ w \notin late
    /\ Silence(CurReg, w) <= heartbeat_interval

\* C19 (SpecWorkers). Online derivation: a registered worker whose heartbeats
\* come at intervals of at most heartbeat_interval is reported Online by
\* get_all_workers and counted by get_online_workers at every instant.
C19_OnlineDerivation ==
    /\ \A w \in Workers : Punctual(w) => get_all_workers(CurReg)[w] = "Online"
    /\ get_online_workers(CurReg) >= Cardinality({w \in Workers : Punctual(w)})

\* Cache entries updated within the last 60 s; rows with last_heartbeat within
\* the last 30 s.
FreshInCache == {w \in DOMAIN worker_cache : worker_cache[w].updated_at < 60}
RecentInStore == {w \in DOMAIN workers : workers[w].last_heartbeat < 30}

\* C20 (SpecWorkers). Online count source: whenever the worker cache
\* is non-empty, get_online_workers returns the number of cache entries
\* updated within the last 60 s; when it is empty, the count of Store rows
\* with last_heartbeat within the last 30 s.
C20_CountSource ==
    /\ DOMAIN worker_cache # {} =>
          get_online_workers(CurReg) = Cardinality(FreshInCache)
    /\ DOMAIN worker_cache = {} =>
          get_online_workers(CurReg) = Cardinality(RecentInStore)

\* C21 (SpecWorkers). Deregistration is write-through: when remove_worker(w)
\* has deleted w's row, w has no entry in the worker cache and
\* get_online_workers counts no more than the other workers known.
C21_DeregistrationWriteThrough ==
    [][\A w \in Workers :
          (w \in DOMAIN workers /\ w \notin DOMAIN workers') =>
              /\ w \notin DOMAIN worker_cache'
              /\ get_online_workers(CurReg)' <=
                     Cardinality((DOMAIN workers' \cup DOMAIN worker_cache') \ {w})]_vars

\* A step of clear_completed_jobs, seen on the Store.
ClearStep ==
    /\ jobs' = clear_completed_jobs(Cur, TRUE).jobs
    /\ sub_jobs' = clear_completed_jobs(Cur, TRUE).sub_jobs

CompletedJobs == {j \in DOMAIN jobs : jobs[j].status = "completed"}
Rows(rows, js) == {rows[i] : i \in {k \in 1..Len(rows) : rows[k].parent_job_id \in js}}

\* C24 (Spec). Clear completed: clear_completed_jobs removes every completed
\* job together with all of its sub-jobs and leaves every other job and its
\* sub-jobs unchanged; in every reachable state each sub-job's parent_job_id
\* refers to a job of the Store.
C24_ClearCompleted ==
    /\ [](\A i \in 1..Len(sub_jobs) : sub_jobs[i].parent_job_id \in DOMAIN jobs)
    /\ [][ClearStep =>
            /\ DOMAIN jobs' = DOMAIN jobs \ CompletedJobs
            /\ \A j \in DOMAIN jobs' : jobs'[j] = jobs[j]
            /\ Rows(sub_jobs', CompletedJobs) = {}
            /\ \A j \in DOMAIN jobs' : Rows(sub_jobs', {j}) = Rows(sub_jobs, {j})
            /\ Len(sub_jobs') = Len(sub_jobs) - Cardinality(Rows(sub_jobs, CompletedJobs))]_vars

\* A job was cleared and another job with sub-jobs is still in the Store.
C24_Witness ==
    /\ \E j \in 1..issued : j \notin DOMAIN jobs /\ j # ui_job
    /\ sub_jobs # <<>>

\* The frames of a batch: end - start + 1, or 1 for a single frame.
FrameCount(frame_range) ==
    IF Len(frame_range) = 2 THEN frame_range[2] - frame_range[1] + 1 ELSE 1

\* C28 (SpecRender). Timeout budget: for every renderer kind and every batch
\* frame range the subprocess timeout used is frame_count * timeout_per_frame
\* * the renderer's timeout multiplier (both sides in tenths of a second).
C28_TimeoutBudget ==
    render.spawned =>
        10 * render.timeout =
            FrameCount(render.frame_range) * timeout_per_frame * renderers[render.renderer]

\* C27 (SpecRender). Timeout always yields failure: when the subprocess ran
\* longer than its timeout, the sub-job is reported with success = false,
\* whatever exit code the terminated process returned.
C27_TimeoutYieldsFailure ==
    (render.pc \in {"finally", "returned"} /\ render.ran_over) =>
        render.reports = <<FALSE>>

\* C29 (SpecRender). One report per sub-job: at most one completion report is
\* ever sent and exactly one has been sent when the clean-up is reached, on
\* every path; a missing renderer is reported as failure without a
\* subprocess; after the call has returned the sub-job is not in current_jobs.
C29_OneReportPerSubJob ==
    /\ Len(render.reports) <= 1
    /\ render.pc \in {"finally", "returned"} => Len(render.reports) = 1
    /\ (render.pc \in {"finally", "returned"} /\ ~render.available) =>
           (render.reports = <<FALSE>> /\ ~render.spawned)
    /\ (render.pc \in {"finally", "returned"} /\ render.spawned /\ render.returncode # 0) =>
           render.reports = <<FALSE>>
    /\ render.pc = "returned" => ~render.listed

\* The call for a renderer the worker has not detected has returned.
C29_Witness ==
    /\ render.pc = "returned"
    /\ ~render.available
    /\ render.reports = <<FALSE>>

\* The server has just answered a request on `path` for `key`.
Answered(path, key) ==
    /\ response'.n = response.n + 1
    /\ response'.path = path
    /\ response'.key = key

\* C22 (SpecApi). Unknown sub-job on completion: a /jobs/complete request
\* whose sub_job_id has no row in the Store is answered with 404 and changes
\* no job, sub-job or cache state.
C22_UnknownSubJob ==
    [][\A id \in AllSubIds :
          (Answered("complete", id) /\ RowOf(Cur, id) = {}) =>
              /\ response'.status = 404
              /\ UNCHANGED <<jobs, sub_jobs, job_cache>>]_vars

\* C23 (SpecApi). Unknown worker on heartbeat: a /workers/heartbeat request
\* whose worker_id has no row in the Store is answered with 404, creates no
\* worker-cache entry and does not increase the online worker count.
C23_UnknownWorker ==
    [][\A w \in Workers :
          (Answered("heartbeat", w) /\ w \notin DOMAIN workers) =>
              /\ response'.status = 404
              /\ w \notin DOMAIN worker_cache'
              /\ get_online_workers(CurReg)' <= get_online_workers(CurReg)]_vars

\* The render threads of worker w that have not returned.
Executing(w) == {i \in 1..Len(threads) : threads[i].w = w /\ threads[i].pc # "returned"}

\* C25 (SpecNode). Worker concurrency limit: the number of sub-jobs a worker
\* has pulled and not finished executing never exceeds max_concurrent_jobs.
C25_ConcurrencyLimit ==
    \A w \in Workers : Cardinality(Executing(w)) <= max_concurrent_jobs

\* Worker w has just run one iteration of its main loop.
PollStep(w) == polled'[w].n = polled[w].n + 1

\* C26 (SpecNode). Resource admission: an iteration of a worker whose
\* admission check fails sends no request, is assigned nothing and leaves
\* the Store as it was; an admitted worker with room whose request is
\* answered is handed the sub-job the Store has for it.
C26_ResourceAdmission ==
    [][\A w \in Workers :
          PollStep(w) =>
              /\ ~check_resource_availability(polled'[w].metrics) =>
                    /\ polled'[w].status = "none"
                    /\ polled'[w].job = NoSub
                    /\ UNCHANGED <<jobs, sub_jobs, job_cache, threads>>
              /\ (/\ check_resource_availability(polled'[w].metrics)
                  /\ Cardinality(current_jobs[w]) < max_concurrent_jobs
                  /\ polled'[w].status # "error") =>
                    /\ polled'[w].job = get_next_job(Cur, w, TRUE).ret
                    /\ polled'[w].job # NoSub =>
                          /\ threads' # threads
                          /\ threads'[Len(threads')].w = w
                          /\ threads'[Len(threads')].id = polled'[w].job]_vars

\* w1 was refused by its admission check and w2 then got a sub-job.
C26_Witness ==
    /\ polled["w1"].n = 1
    /\ ~check_resource_availability(polled["w1"].metrics)
    /\ polled["w1"].status = "none"
    /\ polled["w2"].status = "job"
    /\ Executing("w1") = {}
    /\ Executing("w2") # {}

\* C30 (SpecNode). Completion reports survive transient failures: a thread
\* whose report was not delivered has retried up to retry_attempts before
\* it gives up, so a thread never returns undelivered after fewer attempts.
C30_ReportRetried ==
    \A i \in 1..Len(threads) :
        (threads[i].pc = "returned" /\ ~threads[i].delivered) =>
            threads[i].reports >= retry_attempts

\* Every frame-range string of up to MaxTerms terms, terms "a-b" with a > b
\* included.
FrameStrings == SeqsUpTo(Terms, MaxTerms) \ {<<>>}

C33_FrameCoverage ==
    batch_step = "batched" =>
        LET F == FrameSet(frame_range_str)
            n == Len(batches)
        IN  /\ \A f \in F : Cardinality({i \in 1..n : f \in rendered_frames(batches[i])}) = 1
            /\ \A i \in 1..n, j \in 1..n :
                  i < j => \A f \in rendered_frames(batches[i]),
                              g \in rendered_frames(batches[j]) : f < g
            /\ n = (Cardinality(F) + batch_size - 1) \div batch_size

\* "1-2,4-5" in batches of three: the first batch spans the gap, the last
\* batch is short.
C33_Witness ==
    /\ batch_step = "batched"
    /\ frame_range_str = << <<1, 2>>, <<4, 5>> >>
    /\ batch_size = 3
    /\ batches = << <<1, 4>>, <<5>> >>

\* process_job has just inserted the sub-jobs of the submitted job.
InsertStep == ui_job # 0 /\ ui_job' = 0 /\ sub_jobs' # sub_jobs

\* C32 (Spec). Dense batch identity: the rows create_sub_jobs inserts for a
\* job are appended after the rows there were, numbered 1..N in order, with
\* the id of the job and that number, pending and with no worker; and no
\* two rows of the Store share an id.
C32_DenseBatchIdentity ==
    /\ [](\A i \in 1..Len(sub_jobs), j \in 1..Len(sub_jobs) :
              i # j => sub_jobs[i].id # sub_jobs[j].id)
    /\ [][InsertStep =>
            LET old == Len(sub_jobs)
                N == Len(sub_jobs') - old
            IN  /\ N >= 1
                /\ SubSeq(sub_jobs', 1, old) = sub_jobs
                /\ \A k \in 1..N :
                      LET row == sub_jobs'[old + k]
                      IN  /\ row.batch_number = k
                          /\ row.id = <<ui_job, k>>
                          /\ row.parent_job_id = ui_job
                          /\ row.status = "pending"
                          /\ row.worker_id = NULL]_vars

\* Two jobs have been split, the first into two batches.
C32_Witness ==
    /\ Len(sub_jobs) = 3
    /\ sub_jobs[1].id = <<1, 1>> /\ sub_jobs[1].batch_number = 1
    /\ sub_jobs[2].id = <<1, 2>> /\ sub_jobs[2].batch_number = 2
    /\ sub_jobs[3].id = <<2, 1>> /\ sub_jobs[3].batch_number = 1

\* C34 (Spec). Paused jobs are not dispatched: while a job is paused no
\* get_next_job call returns one of its sub-jobs, whether the sub-job is
\* pending in the Store or waits in the ready cache.
C34_PausedNotDispatched ==
    [][\A j \in DOMAIN jobs :
          jobs[j].status = "paused" =>
              \A w \in Workers : QGetNextJob(w) => Got(w)[1] # j]_vars

\* The manager has just taken a heartbeat of the registered worker w.
HeartbeatStep(w) ==
    /\ w \in DOMAIN workers
    /\ workers' = worker_heartbeat(CurReg, w).workers
    /\ worker_cache' = worker_heartbeat(CurReg, w).worker_cache
    /\ last_db_heartbeat' = worker_heartbeat(CurReg, w).last_db_heartbeat

\* C35 (SpecWorkers). Heartbeat rate limiting: every heartbeat refreshes the
\* worker's cache entry; it refreshes the Store row's last_heartbeat when it
\* is the worker's first heartbeat or at least db_write_interval seconds
\* have passed since the last heartbeat that wrote the row, and leaves the
\* row alone otherwise.
C35_HeartbeatRateLimit ==
    [][\A w \in Workers :
          HeartbeatStep(w) =>
              /\ w \in DOMAIN worker_cache'
              /\ worker_cache'[w].updated_at = 0
              /\ IF w \notin DOMAIN last_db_heartbeat
                    \/ last_db_heartbeat[w] >= db_write_interval
                 THEN workers'[w].last_heartbeat = 0
                 ELSE workers'[w] = workers[w]]_vars

\* A get_next_job or complete_sub_job call has just failed on the Store.
FailedWrite ==
    /\ response'.n = response.n + 1
    /\ response'.status \in {0, 500}

\* C36 (SpecFault). Store-first update order: when the Store update of
\* get_next_job or complete_sub_job fails, the Store is as before and the
\* cache is left unchanged, so no cache entry shows a status its Store row
\* does not have because of the failed call.
C36_StoreFirst ==
    [][FailedWrite =>
          /\ UNCHANGED <<jobs, sub_jobs>>
          /\ job_cache' = job_cache]_vars

\* C37 (SpecCache). Cache bounds: after every get_next_job call the ready
\* cache holds at most its maximum size of entries, and each entry the call
\* evicted was the one inserted first among those cached.
C37_CacheBounds ==
    /\ Len(job_cache) <= CacheCap
    /\ \A k \in 1..Len(cache_log.evicted) :
          cache_log.evicted[k][1] = cache_log.evicted[k][2]

\* Buffers the pool of worker w knows of.
Pooled(w) ==
    {pool[w].available[k] : k \in 1..Len(pool[w].available)}
        \cup {pool[w].in_use[x] : x \in DOMAIN pool[w].in_use}

BorrowStep(i) ==
    i <= Len(threads) /\ threads[i].pc = "started" /\ threads'[i].pc = "buffered"

FinallyStep(i) ==
    i <= Len(threads) /\ threads[i].pc = "reported" /\ threads'[i].pc = "returned"

\* Threads other than i that hold buffer b and have not returned.
Borrowers(i, b) ==
    {j \in 1..Len(threads) \ {i} :
        /\ threads[j].w = threads[i].w /\ threads[j].buffer = b
        /\ threads[j].pc \in {"buffered", "running", "reported"}}

\* C38 (SpecNode). Render buffer pool: in use plus available never exceeds
\* max_buffers; get_buffer returns no buffer when max_buffers are in use;
\* and when execute_render_job returns for a sub-job, the buffer it borrowed
\* is in the available list again (or borrowed anew by a thread still
\* running).
C38_BufferPool ==
    /\ [](\A w \in Workers :
            Cardinality(DOMAIN pool[w].in_use) + Len(pool[w].available) <= max_buffers)
    /\ [][\A i \in 1..MaxThreads :
            (BorrowStep(i) /\ Cardinality(DOMAIN pool[threads[i].w].in_use) >= max_buffers)
                => threads'[i].buffer = NoBuffer]_vars
    /\ [][\A i \in 1..MaxThreads :
            (FinallyStep(i) /\ threads[i].buffer # NoBuffer)
                => \/ \E k \in 1..Len(pool'[threads[i].w].available) :
                         pool'[threads[i].w].available[k] = threads[i].buffer
                   \/ Borrowers(i, threads[i].buffer) # {}]_vars

====
